---- MODULE Spec2Model ----
(***************************************************************************)
(* A model of the hello-world WASM plugin (examples/plugins/               *)
(* hello-world-wasm-rust): the memory bridge (memory.rs), the hook         *)
(* contract schemas and the Context store (types.rs) and the exported      *)
(* entry points (lib.rs).                                                  *)
(*                                                                         *)
(* JSON documents are modelled as tagged trees (what serde_json::Value     *)
(* holds); the typed decoders and encoders are modelled by what the serde  *)
(* attributes of each struct do to such a tree.  Input text that is not    *)
(* JSON at all is modelled by its byte layout (see RawText).               *)
(***************************************************************************)
EXTENDS Integers, Sequences, FiniteSets, TLC

(***************************************************************************)
(* JSON values (serde_json::Value).                                        *)
(***************************************************************************)
Null == [t |-> "null"]
Bool(b) == [t |-> "bool", b |-> b]
Num(n) == [t |-> "num", n |-> n]
Str(s) == [t |-> "str", s |-> s]
Obj(f) == [t |-> "obj", o |-> f]
Arr(q) == [t |-> "arr", a |-> q]

\* Option::None for the Option<...> fields of the output structs.
NoneV == [t |-> "none"]
\* A key that a document does not carry (used only to build input documents).
Absent == [t |-> "absent"]

EmptyMap == <<>>

\* The document with the fields of f that are not Absent.
DocOf(f) == Obj([k \in {x \in DOMAIN f : f[x] # Absent} |-> f[k]])

\* Result<T, E>
Ok(v) == [ok |-> TRUE, v |-> v]
Err(e) == [ok |-> FALSE, e |-> e]

I32Max == 2147483647
I32Min == -I32Max - 1

(***************************************************************************)
(* types.rs, mod nullable: deserializers of fields that may be null.       *)
(***************************************************************************)
\* string_map that gives the empty map as soon as one value is null.
string_map_null_empties(v) ==
    IF v = Null THEN Ok(EmptyMap)
    ELSE IF v.t = "obj" /\ \A k \in DOMAIN v.o : v.o[k].t \in {"null", "str"}
    THEN (IF \E k \in DOMAIN v.o : v.o[k].t = "null" THEN Ok(EmptyMap)
          ELSE Ok([k \in DOMAIN v.o |-> v.o[k].s]))
    ELSE Err("invalid type: expected a map of strings")

\* nullable::string without the Option: null is an error.
nullable_string_rejecting_null(v) ==
    IF v.t = "str" THEN Ok(v.s) ELSE Err("invalid type: expected a string")

nullable_string(v) ==
    IF v = Null THEN Ok("")
    ELSE IF v.t = "str" THEN Ok(v.s)
    ELSE Err("invalid type: expected a string")

string_map(v) ==
    IF v = Null THEN Ok(EmptyMap)
    ELSE IF v.t = "obj" /\ \A k \in DOMAIN v.o : v.o[k].t \in {"null", "str"}
    THEN Ok([k \in {x \in DOMAIN v.o : v.o[x].t = "str"} |-> v.o[k].s])
    ELSE Err("invalid type: expected a map of strings")

i32_field(v) ==
    IF v = Null THEN Ok(0)
    ELSE IF v.t = "num" /\ v.n >= I32Min /\ v.n <= I32Max THEN Ok(v.n)
    ELSE Err("invalid type: expected i32")

(***************************************************************************)
(* types.rs: BifrostContext, a transparent HashMap<String, Value>.         *)
(***************************************************************************)
DefaultContext == EmptyMap

\* A decoder of the map that drops the keys whose value is null.
De_BifrostContext_dropping_null(v) ==
    IF v.t = "obj" THEN Ok([k \in {x \in DOMAIN v.o : v.o[x] # Null} |-> v.o[k]])
    ELSE Err("invalid type: expected a map")

De_BifrostContext(v) ==
    IF v.t = "obj" THEN Ok(v.o) ELSE Err("invalid type: expected a map")

Ser_BifrostContext(c) == Obj(c)

\* nullable::context
nullable_context(v) == IF v = Null THEN Ok(DefaultContext) ELSE De_BifrostContext(v)

\* A field of type serde_json::Value.
De_Value(v) == Ok(v)

\* A field of type bool.
De_bool(v) == IF v.t = "bool" THEN Ok(v.b) ELSE Err("invalid type: expected a boolean")

(***************************************************************************)
(* The structs that derive Deserialize.  Each is described by its fields   *)
(* in declaration order: the key, the value #[serde(default)] gives when   *)
(* the key is missing, and the deserializer applied when it is present     *)
(* (deserialize_with, or the field type's own).                            *)
(***************************************************************************)
DefaultHTTPRequest ==
    [method |-> "", path |-> "", headers |-> EmptyMap, query |-> EmptyMap, body |-> ""]

DefaultHTTPResponse == [status_code |-> 0, headers |-> EmptyMap, body |-> ""]

HTTPRequest ==
    << [name |-> "method", dflt |-> "", de |-> "nullable::string"],
       [name |-> "path", dflt |-> "", de |-> "nullable::string"],
       [name |-> "headers", dflt |-> EmptyMap, de |-> "nullable::string_map"],
       [name |-> "query", dflt |-> EmptyMap, de |-> "nullable::string_map"],
       [name |-> "body", dflt |-> "", de |-> "nullable::string"] >>

HTTPResponse ==
    << [name |-> "status_code", dflt |-> 0, de |-> "nullable::i32_field"],
       [name |-> "headers", dflt |-> EmptyMap, de |-> "nullable::string_map"],
       [name |-> "body", dflt |-> "", de |-> "nullable::string"] >>

HTTPInterceptInput ==
    << [name |-> "context", dflt |-> DefaultContext, de |-> "nullable::context"],
       [name |-> "request", dflt |-> DefaultHTTPRequest, de |-> "nullable::http_request"] >>

PreHookInput ==
    << [name |-> "context", dflt |-> DefaultContext, de |-> "BifrostContext"],
       [name |-> "request", dflt |-> Null, de |-> "Value"] >>

PostHookInput ==
    << [name |-> "context", dflt |-> DefaultContext, de |-> "BifrostContext"],
       [name |-> "response", dflt |-> Null, de |-> "Value"],
       [name |-> "error", dflt |-> Null, de |-> "Value"],
       [name |-> "has_error", dflt |-> FALSE, de |-> "bool"] >>

HTTPStreamChunkHookInput ==
    << [name |-> "context", dflt |-> DefaultContext, de |-> "BifrostContext"],
       [name |-> "request", dflt |-> Null, de |-> "Value"],
       [name |-> "chunk", dflt |-> Null, de |-> "Value"] >>

(***************************************************************************)
(* serde's derived Deserialize for a struct: a JSON object is read by      *)
(* field name (unknown keys are ignored), a JSON array by position.        *)
(* StructFields gives the tree's fields by name, or an error.              *)
(***************************************************************************)
StructFields(v, shape) ==
    IF v.t = "obj" THEN Ok(v.o)
    ELSE IF v.t = "arr" THEN
        IF Len(v.a) > Len(shape) THEN Err("trailing characters")
        ELSE Ok([k \in {shape[i].name : i \in 1..Len(v.a)} |->
                    v.a[CHOOSE i \in 1..Len(v.a) : shape[i].name = k]])
    ELSE Err("invalid type: expected a struct")

\* The first error among the results rs (a sequence), in field order.
FirstErr(rs) == rs[CHOOSE i \in 1..Len(rs) :
                    /\ ~rs[i].ok
                    /\ \A j \in 1..(i - 1) : rs[j].ok]
AllOk(rs) == \A i \in 1..Len(rs) : rs[i].ok

\* The struct built from the fields' results, or the first field's error.
Collect(shape, rs) ==
    IF AllOk(rs)
    THEN Ok([k \in {shape[i].name : i \in 1..Len(shape)} |->
                rs[CHOOSE i \in 1..Len(shape) : shape[i].name = k].v])
    ELSE FirstErr(rs)

\* types.rs:355-370: BifrostChatRequest.  The decoders of its fields: a
\* String, a Vec<ChatMessage> (of a message only the role is read here) and
\* an Option of a struct (of which only null and a map are told apart).
BifrostChatRequest ==
    << [name |-> "provider", dflt |-> "", de |-> "String"],
       [name |-> "model", dflt |-> "", de |-> "String"],
       [name |-> "input", dflt |-> <<>>, de |-> "Vec<ChatMessage>"],
       [name |-> "params", dflt |-> NoneV, de |-> "Option<struct>"],
       [name |-> "fallbacks", dflt |-> NoneV, de |-> "Option<struct>"] >>

ChatMessageRole == {"user", "assistant", "system", "tool", "developer"}

De_String(v) == IF v.t = "str" THEN Ok(v.s) ELSE Err("invalid type: expected a string")
De_ChatMessage(v) ==
    /\ v.t = "obj"
    /\ "role" \in DOMAIN v.o => (v.o["role"].t = "str" /\ v.o["role"].s \in ChatMessageRole)
De_ChatMessages(v) ==
    IF v.t = "arr" /\ \A i \in 1..Len(v.a) : De_ChatMessage(v.a[i]) THEN Ok(v.a)
    ELSE Err("invalid type: expected a sequence of messages")
De_OptionStruct(v) ==
    IF v = Null THEN Ok(NoneV)
    ELSE IF v.t \in {"obj", "arr"} THEN Ok(v)
    ELSE Err("invalid type: expected a struct")

RECURSIVE De_Struct(_, _), De_Fields(_, _), De(_, _)
De_Struct(v, shape) == De_Fields(StructFields(v, shape), shape)
De_Fields(fs, shape) ==
    IF ~fs.ok THEN fs
    ELSE Collect(shape, [i \in 1..Len(shape) |->
                            IF shape[i].name \in DOMAIN fs.v
                            THEN De(shape[i].de, fs.v[shape[i].name])
                            ELSE Ok(shape[i].dflt)])

\* nullable::http_request
nullable_http_request(v) ==
    IF v = Null THEN Ok(DefaultHTTPRequest) ELSE De_Struct(v, HTTPRequest)

De(de, v) ==
    CASE de = "nullable::string" -> nullable_string(v)
      [] de = "nullable::string_map" -> string_map(v)
      [] de = "nullable::i32_field" -> i32_field(v)
      [] de = "nullable::context" -> nullable_context(v)
      [] de = "nullable::http_request" -> nullable_http_request(v)
      [] de = "BifrostContext" -> De_BifrostContext(v)
      [] de = "Value" -> De_Value(v)
      [] de = "bool" -> De_bool(v)
      [] de = "String" -> De_String(v)
      [] de = "Vec<ChatMessage>" -> De_ChatMessages(v)
      [] de = "Option<struct>" -> De_OptionStruct(v)

\* types.rs:382-389: BifrostRequest, an optional chat_request and every other
\* key flattened into extra; it reads any JSON object whose chat_request, if
\* there and not null, is a BifrostChatRequest.
De_ChatRequest(o) ==
    IF "chat_request" \in DOMAIN o /\ o["chat_request"] # Null
    THEN De_Struct(o["chat_request"], BifrostChatRequest)
    ELSE Ok(NoneV)
BifrostRequestOf(o, chat) ==
    IF ~chat.ok THEN chat
    ELSE Ok([chat_request |-> chat.v,
             extra |-> [k \in DOMAIN o \ {"chat_request"} |-> o[k]]])
De_BifrostRequest(v) ==
    IF v.t # "obj" THEN Err("invalid type: expected a map")
    ELSE BifrostRequestOf(v.o, De_ChatRequest(v.o))

\* types.rs:393-398: BifrostRequest::get_provider_model
request_get_provider_model(req) ==
    IF req.chat_request # NoneV
    THEN <<req.chat_request.provider, req.chat_request.model>>
    ELSE <<"", "">>

\* types.rs:572-574: PreHookInput::parse_request
parse_request(input) == De_BifrostRequest(input.request)

\* self.request.get(key).and_then(|v| v.as_str()).unwrap_or("")
StrAt(v, key) ==
    IF v.t = "obj" /\ key \in DOMAIN v.o /\ v.o[key].t = "str" THEN v.o[key].s ELSE ""

\* types.rs:577-591: PreHookInput::get_provider_model; parsed is parse_request.
get_provider_model_on(input, parsed) ==
    IF parsed.ok THEN request_get_provider_model(parsed.v)
    ELSE <<StrAt(input.request, "provider"), StrAt(input.request, "model")>>

get_provider_model(input) == get_provider_model_on(input, parse_request(input))

Ser_StringMap(m) == Obj([k \in DOMAIN m |-> Str(m[k])])

Ser_HTTPRequest(r) ==
    Obj([k \in {"method", "path", "headers", "query", "body"} |->
            CASE k = "method" -> Str(r.method)
              [] k = "path" -> Str(r.path)
              [] k = "headers" -> Ser_StringMap(r.headers)
              [] k = "query" -> Ser_StringMap(r.query)
              [] k = "body" -> Str(r.body)])

(***************************************************************************)
(* types.rs: the output shape of each hook and its derived Serialize.      *)
(* A field with skip_serializing_if = "Option::is_none" is written only    *)
(* when it is Some.                                                        *)
(***************************************************************************)
DefaultHTTPInterceptOutput ==
    [context |-> DefaultContext, request |-> NoneV, response |-> NoneV,
     has_response |-> FALSE, error |-> ""]

Ser_HTTPInterceptOutput(out) ==
    Obj([k \in {"context", "has_response", "error"}
               \cup (IF out.request # NoneV THEN {"request"} ELSE {})
               \cup (IF out.response # NoneV THEN {"response"} ELSE {}) |->
            CASE k = "context" -> Ser_BifrostContext(out.context)
              [] k = "request" -> out.request
              [] k = "response" -> out.response
              [] k = "has_response" -> Bool(out.has_response)
              [] k = "error" -> Str(out.error)])

DefaultPreHookOutput ==
    [context |-> DefaultContext, request |-> NoneV, short_circuit |-> NoneV,
     has_short_circuit |-> FALSE, error |-> ""]

Ser_PreHookOutput(out) ==
    Obj([k \in {"context", "has_short_circuit", "error"}
               \cup (IF out.request # NoneV THEN {"request"} ELSE {})
               \cup (IF out.short_circuit # NoneV THEN {"short_circuit"} ELSE {}) |->
            CASE k = "context" -> Ser_BifrostContext(out.context)
              [] k = "request" -> out.request
              [] k = "short_circuit" -> out.short_circuit
              [] k = "has_short_circuit" -> Bool(out.has_short_circuit)
              [] k = "error" -> Str(out.error)])

DefaultPostHookOutput ==
    [context |-> DefaultContext, response |-> NoneV, error |-> NoneV,
     has_error |-> FALSE, hook_error |-> ""]

Ser_PostHookOutput(out) ==
    Obj([k \in {"context", "has_error", "hook_error"}
               \cup (IF out.response # NoneV THEN {"response"} ELSE {})
               \cup (IF out.error # NoneV THEN {"error"} ELSE {}) |->
            CASE k = "context" -> Ser_BifrostContext(out.context)
              [] k = "response" -> out.response
              [] k = "error" -> out.error
              [] k = "has_error" -> Bool(out.has_error)
              [] k = "hook_error" -> Str(out.hook_error)])

DefaultHTTPStreamChunkHookOutput ==
    [context |-> DefaultContext, chunk |-> NoneV, has_chunk |-> FALSE,
     skip |-> FALSE, error |-> ""]

Ser_HTTPStreamChunkHookOutput(out) ==
    Obj([k \in {"context", "has_chunk", "skip", "error"}
               \cup (IF out.chunk # NoneV THEN {"chunk"} ELSE {}) |->
            CASE k = "context" -> Ser_BifrostContext(out.context)
              [] k = "chunk" -> out.chunk
              [] k = "has_chunk" -> Bool(out.has_chunk)
              [] k = "skip" -> Bool(out.skip)
              [] k = "error" -> Str(out.error)])

(***************************************************************************)
(* types.rs: the Context store.                                            *)
(***************************************************************************)
\* set_value that empties the map before it inserts.
set_value_clearing(c, key, value) == [k \in {key} |-> value]

set_value(c, key, value) ==
    [k \in DOMAIN c \cup {key} |-> IF k = key THEN value ELSE c[k]]

get(c, key) == IF key \in DOMAIN c THEN c[key] ELSE NoneV

contains_key(c, key) == key \in DOMAIN c

remove(c, key) == [k \in DOMAIN c \ {key} |-> c[k]]

\* serde_json numbers that are no i64: an integer above i64::MAX (given by
\* what it exceeds i64::MAX by) and a float (given by its text).
BigUint(over) == [t |-> "u64", over |-> over]
Float(text) == [t |-> "float", s |-> text]

\* Option<T>: Some(x) and None.
Some(x) == <<x>>
None == <<>>

\* Value::as_str, as_bool, as_i64.
as_str(v) == IF v.t = "str" THEN Some(v.s) ELSE None

\* as_bool that reads the integers 0 and 1 as booleans.
as_bool_coercing(v) ==
    IF v.t = "bool" THEN Some(v.b)
    ELSE IF v.t = "num" /\ v.n \in {0, 1} THEN Some(v.n = 1)
    ELSE None

as_bool(v) == IF v.t = "bool" THEN Some(v.b) ELSE None
as_i64(v) == IF v.t = "num" THEN Some(v.n) ELSE None

get_string(c, key) == IF key \in DOMAIN c THEN as_str(c[key]) ELSE None
get_bool(c, key) == IF key \in DOMAIN c THEN as_bool(c[key]) ELSE None
get_i64(c, key) == IF key \in DOMAIN c THEN as_i64(c[key]) ELSE None

(***************************************************************************)
(* Text.  A buffer or a String is modelled by what the code depends on:    *)
(*  - kind "doc": the compact, all-ASCII rendering of the JSON tree doc;   *)
(*  - kind "raw": text that is not JSON: ws bytes of JSON whitespace, of   *)
(*    which the first nl end with a newline, then garbage: a ASCII bytes   *)
(*    that start no JSON value, one character of w bytes (0: none) and b   *)
(*    more ASCII bytes.  ill says that the character is a single           *)
(*    ill-formed byte (in a buffer; a String never holds one).             *)
(***************************************************************************)
DocText(v) == [kind |-> "doc", doc |-> v]
RawText(ws, nl, a, w, ill, b) ==
    [kind |-> "raw", ws |-> ws, nl |-> nl, a |-> a, w |-> w, ill |-> ill, b |-> b]
EmptyText == RawText(0, 0, 0, 0, FALSE, 0)

RECURSIVE Digits(_)
Digits(n) == IF n < 0 THEN 1 + Digits(-n) ELSE IF n < 10 THEN 1 ELSE 1 + Digits(n \div 10)

\* The byte length of the compact rendering of a JSON tree.
RECURSIVE ByteLen(_), MembersLen(_, _), ItemsLen(_)
ByteLen(v) ==
    CASE v.t = "null" -> 4
      [] v.t = "bool" -> IF v.b THEN 4 ELSE 5
      [] v.t = "num" -> Digits(v.n)
      [] v.t = "str" -> Len(v.s) + 2
      [] v.t = "arr" -> 2 + ItemsLen(v.a) + (IF Len(v.a) > 1 THEN Len(v.a) - 1 ELSE 0)
      [] v.t = "obj" -> 2 + MembersLen(v.o, DOMAIN v.o)
                          + (IF DOMAIN v.o = {} THEN 0 ELSE Cardinality(DOMAIN v.o) - 1)
MembersLen(o, ks) ==
    IF ks = {} THEN 0
    ELSE LET k == CHOOSE x \in ks : TRUE
         IN Len(k) + 3 + ByteLen(o[k]) + MembersLen(o, ks \ {k})
ItemsLen(q) == IF q = <<>> THEN 0 ELSE ByteLen(Head(q)) + ItemsLen(Tail(q))

TextLen(t) == IF t.kind = "doc" THEN ByteLen(t.doc) ELSE t.ws + t.a + t.w + t.b

\* str::is_char_boundary: what slicing a String by byte index checks.
IsCharBoundary(t, i) ==
    /\ 0 <= i
    /\ i <= TextLen(t)
    /\ (t.kind = "raw" => (i <= t.ws + t.a \/ i >= t.ws + t.a + t.w))

(***************************************************************************)
(* memory.rs                                                               *)
(***************************************************************************)
\* A u32 is two 16-bit limbs and a u64 four, least significant first.
Limb == 2 ^ 16
Zero64 == <<0, 0, 0, 0>>

\* The u32 of a number below 2^31, and back.
U32(n) == <<n % Limb, n \div Limb>>
FromU32(x) == x[1] + Limb * x[2]

\* Bitwise or of two limbs.
RECURSIVE BitOr(_, _)
BitOr(x, y) ==
    IF x = 0 THEN y
    ELSE IF y = 0 THEN x
    ELSE (IF x % 2 = 1 \/ y % 2 = 1 THEN 1 ELSE 0) + 2 * BitOr(x \div 2, y \div 2)

\* `x as u64` of a u32, `x << 32` and `x | y` on u64.
AsU64(x32) == <<x32[1], x32[2], 0, 0>>
\* A shift by 16 in place of 32.
Shl16(x) == <<0, x[1], x[2], 0>>

Shl32(x) == <<0, 0, x[1], x[2]>>
BitOr64(x, y) == [i \in 1..4 |-> BitOr(x[i], y[i])]

\* pack_result on u32 values given by their limbs, and on numbers.
pack_result32(ptr, len) == BitOr64(Shl32(AsU64(ptr)), AsU64(len))
pack_result(ptr, len) == pack_result32(U32(ptr), U32(len))

\* What the host does with a packed result: the high and the low word.
UnpackPtr(r) == FromU32(<<r[3], r[4]>>)
UnpackLen(r) == FromU32(<<r[1], r[2]>>)

\* The same two words as u32 limbs.
HighWord(r) == <<r[3], r[4]>>
LowWord(r) == <<r[1], r[2]>>

\* isize::MAX on wasm32: the largest size Layout::from_size_align accepts.
ISizeMax == 2147483647

\* The module's linear memory as far as the allocator is concerned: the live
\* blocks, each [ptr, size].  alloc may place a block at any of the candidate
\* addresses where it overlaps no live block.
HeapBase == 1024
HeapStride == 1024
NumSlots == 2
HeapAddrs == {HeapBase + i * HeapStride : i \in 0..(NumSlots - 1)}

Overlaps(blk, p, n) == p < blk.ptr + blk.size /\ blk.ptr < p + n

\* malloc that may return an address inside a live block.
MallocResults_overlapping(h, size) ==
    IF size = 0 \/ size > ISizeMax THEN {0} ELSE {0} \cup HeapAddrs

\* malloc: 0 for size 0 and for a size no Layout exists for; otherwise what
\* alloc returns, which is null (0) when it fails.
MallocResults(h, size) ==
    IF size = 0 \/ size > ISizeMax THEN {0}
    ELSE {0} \cup {p \in HeapAddrs : \A blk \in h : ~Overlaps(blk, p, size)}

Allocated(h, p, size) == IF p = 0 THEN h ELSE h \cup {[ptr |-> p, size |-> size]}

\* free: a no-op for a null pointer or a zero size.
free(h, p, size) == IF p = 0 \/ size = 0 THEN h ELSE h \ {[ptr |-> p, size |-> size]}

\* read_string: the empty String for len = 0, otherwise the buffer's bytes with
\* every ill-formed sequence replaced by U+FFFD (3 bytes).
from_utf8_lossy(buf) ==
    IF buf.kind = "raw" /\ buf.ill THEN [buf EXCEPT !.w = 3, !.ill = FALSE] ELSE buf
read_string(buf, len) == IF len = 0 THEN EmptyText ELSE from_utf8_lossy(buf)

\* write_string that does not test what malloc returned.
write_string_unchecked(len, p) == IF len = 0 THEN Zero64 ELSE pack_result(p, len)

\* write_string of a string of len bytes; p is what malloc returned (malloc
\* is not called for the empty string).
write_string(len, p) == IF len = 0 THEN Zero64 ELSE IF p = 0 THEN Zero64 ELSE pack_result(p, len)

(***************************************************************************)
(* serde_json::from_str.  An error carries the message and the position    *)
(* where the reader stood; its Display is "<msg> at line L column C".      *)
(***************************************************************************)
\* lib.rs:64-65: the bytes of context kept on each side of the error column.
SnippetRadius == 50

SerdeError(msg, line, column) == [msg |-> msg, line |-> line, column |-> column]

\* Raw text: the reader skips the whitespace and fails on what follows.
RawLine(t) == IF t.nl > 0 THEN 2 ELSE 1
RawError(t) ==
    IF t.a + t.w + t.b = 0
    THEN SerdeError("EOF while parsing a value", RawLine(t), t.ws - t.nl)
    ELSE SerdeError("expected value", RawLine(t), t.ws - t.nl + 1)

\* The columns an error of the typed decoder may be reported at in a rendered
\* document: the reader stood somewhere in 1..len.  The columns taken are the
\* ends of that range and those around which the snippet's clamping changes.
DocColumns(len) ==
    {1, SnippetRadius, SnippetRadius + 1, len - SnippetRadius,
     len - SnippetRadius + 1, len} \cap 1..len
ErrorColumns(t) == IF t.kind = "doc" THEN DocColumns(TextLen(t)) ELSE {RawError(t).column}

Positioned(r, col) == IF r.ok THEN r ELSE Err(SerdeError(r.e, 1, col))

from_str(t, shape, col) ==
    IF t.kind = "raw" THEN Err(RawError(t)) ELSE Positioned(De_Struct(t.doc, shape), col)

Display(e) == [msg |-> e.msg, positioned |-> e.line # 0, column |-> e.column]

(***************************************************************************)
(* lib.rs                                                                  *)
(***************************************************************************)
\* extract_column: the number after the last "column " of the rendered error,
\* as an Option (<<c>> is Some(c), <<>> is None).
extract_column(shown) == IF shown.positioned THEN <<shown.column>> ELSE <<>>

saturating_sub(x, y) == IF x >= y THEN x - y ELSE 0
Min(x, y) == IF x <= y THEN x ELSE y

\* &input_str[start..end] panics unless start <= end <= len and both are
\* character boundaries.
SliceOk(t, start, end) ==
    /\ start <= end
    /\ end <= TextLen(t)
    /\ IsCharBoundary(t, start)
    /\ IsCharBoundary(t, end)

\* The outcome of a handler: it panicked (the call traps), or it built the
\* payload it hands to write_string.
Panicked == [panic |-> TRUE, payload |-> NoneV]
Built(doc) == [panic |-> FALSE, payload |-> doc]

ParseFailure(msg) == "Failed to parse input: " \o msg

\* lib.rs:61-75: the error arm of http_intercept; c is extract_column's result.
http_intercept_err(input_str, e, c) ==
    IF c = <<>>
    THEN Built(Ser_HTTPInterceptOutput(
             [DefaultHTTPInterceptOutput EXCEPT !.error = ParseFailure(e.msg)]))
    ELSE IF ~SliceOk(input_str, saturating_sub(c[1], SnippetRadius),
                     Min(c[1] + SnippetRadius, TextLen(input_str)))
    THEN Panicked
    ELSE Built(Ser_HTTPInterceptOutput(
             [DefaultHTTPInterceptOutput EXCEPT
                 !.error = ParseFailure(e.msg) \o " | context: ......"]))

\* lib.rs:79-95.  The local `context` (lib.rs:80-81) is input.context with
\* from-http set; the output takes input.context (lib.rs:88), not that local.
http_intercept_ok(input, context) ==
    Built(Ser_HTTPInterceptOutput(
        [DefaultHTTPInterceptOutput EXCEPT
            !.context = input.context,
            !.request = Ser_HTTPRequest(input.request),
            !.has_response = FALSE]))

http_intercept_on(input_str, r) ==
    IF ~r.ok THEN http_intercept_err(input_str, r.e, extract_column(Display(r.e)))
    ELSE http_intercept_ok(r.v, set_value(r.v.context, "from-http", Str("123")))

http_intercept(input_str, col) ==
    http_intercept_on(input_str, from_str(input_str, HTTPInterceptInput, col))

\* pre_hook that forgets to copy the context into its output.
pre_hook_on_without_context(r) ==
    IF ~r.ok
    THEN Built(Ser_PreHookOutput([DefaultPreHookOutput EXCEPT !.error = ParseFailure(r.e.msg)]))
    ELSE Built(Ser_PreHookOutput(
             [DefaultPreHookOutput EXCEPT
                 !.request = r.v.request,
                 !.has_short_circuit = FALSE]))

pre_hook_on(r) ==
    IF ~r.ok
    THEN Built(Ser_PreHookOutput([DefaultPreHookOutput EXCEPT !.error = ParseFailure(r.e.msg)]))
    ELSE Built(Ser_PreHookOutput(
             [DefaultPreHookOutput EXCEPT
                 !.context = r.v.context,
                 !.request = r.v.request,
                 !.has_short_circuit = FALSE]))

pre_hook(input_str, col) == pre_hook_on(from_str(input_str, PreHookInput, col))

\* post_hook that leaves has_error at its default.
post_hook_on_default_has_error(r) ==
    IF ~r.ok
    THEN Built(Ser_PostHookOutput(
             [DefaultPostHookOutput EXCEPT !.hook_error = ParseFailure(r.e.msg)]))
    ELSE Built(Ser_PostHookOutput(
             [context |-> set_value(r.v.context, "from-post-hook", Str("456")),
              response |-> r.v.response,
              error |-> r.v.error,
              has_error |-> FALSE,
              hook_error |-> ""]))

\* post_hook that builds its output context from an empty one.
post_hook_on_fresh_context(r) ==
    IF ~r.ok
    THEN Built(Ser_PostHookOutput(
             [DefaultPostHookOutput EXCEPT !.hook_error = ParseFailure(r.e.msg)]))
    ELSE Built(Ser_PostHookOutput(
             [context |-> set_value(DefaultContext, "from-post-hook", Str("456")),
              response |-> r.v.response,
              error |-> r.v.error,
              has_error |-> r.v.has_error,
              hook_error |-> ""]))

post_hook_on(r) ==
    IF ~r.ok
    THEN Built(Ser_PostHookOutput(
             [DefaultPostHookOutput EXCEPT !.hook_error = ParseFailure(r.e.msg)]))
    ELSE Built(Ser_PostHookOutput(
             [context |-> set_value(r.v.context, "from-post-hook", Str("456")),
              response |-> r.v.response,
              error |-> r.v.error,
              has_error |-> r.v.has_error,
              hook_error |-> ""]))

post_hook(input_str, col) == post_hook_on(from_str(input_str, PostHookInput, col))

\* http_stream_chunk_hook that returns no chunk.
http_stream_chunk_hook_on_dropping(r) ==
    IF ~r.ok
    THEN Built(Ser_HTTPStreamChunkHookOutput(
             [DefaultHTTPStreamChunkHookOutput EXCEPT !.error = ParseFailure(r.e.msg)]))
    ELSE Built(Ser_HTTPStreamChunkHookOutput(
             [context |-> set_value(r.v.context, "from-stream-chunk", Str("rust-wasm")),
              chunk |-> NoneV,
              has_chunk |-> FALSE,
              skip |-> FALSE,
              error |-> ""]))

http_stream_chunk_hook_on(r) ==
    IF ~r.ok
    THEN Built(Ser_HTTPStreamChunkHookOutput(
             [DefaultHTTPStreamChunkHookOutput EXCEPT !.error = ParseFailure(r.e.msg)]))
    ELSE Built(Ser_HTTPStreamChunkHookOutput(
             [context |-> set_value(r.v.context, "from-stream-chunk", Str("rust-wasm")),
              chunk |-> r.v.chunk,
              has_chunk |-> TRUE,
              skip |-> FALSE,
              error |-> ""]))

http_stream_chunk_hook(input_str, col) ==
    http_stream_chunk_hook_on(from_str(input_str, HTTPStreamChunkHookInput, col))

\* types.rs:703-707: PluginConfig flattens a map, so it reads any JSON object
\* and nothing else.
DefaultPluginConfig == [values |-> EmptyMap]
De_PluginConfig(v) ==
    IF v.t = "obj" THEN Ok([values |-> v.o]) ELSE Err("invalid type: expected a map")
config_from_str(t) ==
    IF t.kind = "raw" THEN Err(RawError(t)) ELSE Positioned(De_PluginConfig(t.doc), 1)

\* The outcome of init and of cleanup: the code returned and PLUGIN_CONFIG.
Outcome(code, stored) == [code |-> code, config |-> stored]

\* init that clears the stored configuration when the new one does not parse.
init_clearing_on_error(config_str, r, stored) ==
    IF TextLen(config_str) = 0 THEN Outcome(0, DefaultPluginConfig)
    ELSE IF r.ok THEN Outcome(0, r.v)
    ELSE Outcome(1, NoneV)

\* lib.rs:30-49; r is serde_json::from_str(&config_str), stored is
\* PLUGIN_CONFIG at the call.
init_on(config_str, r, stored) ==
    IF TextLen(config_str) = 0 THEN Outcome(0, DefaultPluginConfig)
    ELSE IF r.ok THEN Outcome(0, r.v)
    ELSE Outcome(1, stored)

init(config_str, stored) == init_on(config_str, config_from_str(config_str), stored)

\* cleanup that leaves the stored configuration in place.
cleanup_keeping(stored) == Outcome(0, stored)

\* lib.rs:298-305
cleanup(stored) == Outcome(0, NoneV)

\* lib.rs:23-25: the name get_name writes.
PluginName == [kind |-> "name", s |-> "hello-world-wasm-rust"]

(***************************************************************************)
(* The payloads the host sends.                                            *)
(***************************************************************************)
CtxChoices ==
    { Absent, Null, Obj(EmptyMap),
      Obj("request_id" :> Str("r1")),
      Obj(("request_id" :> Str("r1")) @@ ("from-http" :> Null)
            @@ ("from-post-hook" :> Str("old")) @@ ("from-stream-chunk" :> Num(7))),
      Obj("nested" :> Obj("a" :> Arr(<<Num(1), Null, Bool(TRUE)>>))),
      Num(5) }

HTTPRequestChoices ==
    { Absent, Null, Obj(EmptyMap),
      Obj(("method" :> Str("POST")) @@ ("path" :> Str("/v1/chat/completions"))
            @@ ("headers" :> Obj("content-type" :> Str("application/json")))
            @@ ("query" :> Obj("q" :> Str("1"))) @@ ("body" :> Str("e30="))),
      Obj(("method" :> Str("POST")) @@ ("path" :> Null) @@ ("headers" :> Null)
            @@ ("query" :> Null) @@ ("body" :> Null)),
      Obj(("method" :> Str("GET")) @@ ("headers" :> Obj(("a" :> Null) @@ ("b" :> Str("x"))))),
      Obj(("method" :> Str("GET")) @@ ("query" :> Obj("page" :> Null))),
      Obj(("method" :> Str("GET")) @@ ("trace_id" :> Str("t-9"))),
      Arr(<<Str("GET"), Str("/health")>>),
      Str("GET /"),
      Obj("headers" :> Obj("a" :> Num(1))) }

ValueChoices ==
    { Absent, Null,
      Obj(("provider" :> Str("openai")) @@ ("model" :> Str("gpt-4"))),
      Obj("chat_request" :> Obj(("provider" :> Str("openai")) @@ ("model" :> Str("gpt-4"))
                                  @@ ("input" :> Arr(<<>>)))),
      Str("text") }

ErrorChoices ==
    { Absent, Null, Obj("error" :> Obj("message" :> Str("upstream failed"))) }

HasErrorChoices == { Absent, Bool(TRUE), Bool(FALSE), Null, Str("true") }

\* Documents of no hook's shape.
OddDocs == { Null, Num(0), Str("x"), Arr(<<>>), Arr(<<Null, Null, Null, Null, Null>>) }

HTTPInterceptDocs ==
    { DocOf([context |-> c, request |-> r]) : c \in CtxChoices, r \in HTTPRequestChoices }
PreHookDocs ==
    { DocOf([context |-> c, request |-> r]) : c \in CtxChoices, r \in ValueChoices }
PostHookDocs ==
    { DocOf([context |-> c, response |-> r, error |-> e, has_error |-> h]) :
        c \in CtxChoices, r \in {Absent, Obj("chat_response" :> Obj("id" :> Str("c1")))},
        e \in ErrorChoices, h \in HasErrorChoices }
HTTPStreamChunkHookDocs ==
    { DocOf([context |-> c, request |-> r, chunk |-> k]) :
        c \in CtxChoices, r \in {Absent, Str("text")},
        k \in {Absent, Null, Obj("delta" :> Str("Hel")), Arr(<<Num(1)>>)} }

\* Text that is not JSON: empty, whitespace only, garbage, with and without a
\* multi-byte or ill-formed character around SnippetRadius.
MaxLead == 1
MaxTail == 2
RawTexts ==
    { RawText(ws, nl, a, w, ill, b) :
        ws \in 0..MaxLead, nl \in 0..MaxLead, a \in {0, SnippetRadius - 1, SnippetRadius},
        w \in 0..4, ill \in BOOLEAN, b \in 0..MaxTail }
HostRawTexts == { t \in RawTexts : t.nl <= t.ws /\ (t.ill => t.w = 1) }

Hooks == {"http_intercept", "pre_hook", "post_hook", "http_stream_chunk_hook"}

DocsOf(f) ==
    CASE f = "http_intercept" -> HTTPInterceptDocs
      [] f = "pre_hook" -> PreHookDocs
      [] f = "post_hook" -> PostHookDocs
      [] f = "http_stream_chunk_hook" -> HTTPStreamChunkHookDocs

HostTexts(f) == { DocText(d) : d \in DocsOf(f) \cup OddDocs } \cup HostRawTexts

(***************************************************************************)
(* The host protocol: the host writes the input into a buffer it got from  *)
(* malloc, calls one hook, reads the result, and frees both buffers.       *)
(***************************************************************************)
VARIABLES
    heap,       \* the live blocks of the module's allocator
    pc,         \* "idle", "ready" (input written), "returned"
    fn,         \* the hook being called
    inbuf,      \* the input buffer: [ptr, len, text]
    ret,        \* the packed result of the call
    payload,    \* the JSON the module wrote at the result's offset, or NoneV
    trapped,    \* the call panicked
    probe,      \* a decoder applied to one document, twice (see Probe)
    ctx,        \* a BifrostContext the module holds
    last,       \* per key, the last operation applied to ctx
    wire,       \* the tokens of an encoded Context
    back,       \* what decoding wire gave
    config,     \* PLUGIN_CONFIG: NoneV, or the stored configuration
    call,       \* the last call of a function that uses no buffer protocol
    thread      \* the context the host threads through the hooks of one request

host == <<heap, pc, fn, inbuf, ret, payload, trapped>>
store == <<ctx, last, wire, back>>
life == <<config, call, thread>>
vars == <<heap, pc, fn, inbuf, ret, payload, trapped, probe, ctx, last, wire, back,
          config, call, thread>>

NoBuf == [ptr |-> 0, len |-> 0, text |-> EmptyText]
NoProbe == [shape |-> "none"]
NoCall == [f |-> "none"]
NoThread == [stage |-> 0]

\* The keys the Context store is exercised with, and what is known of the
\* last operation on a key.
Keys == {"request_id", "meta"}
Never == [op |-> "none"]

Init ==
    /\ heap = {}
    /\ pc = "idle"
    /\ fn = "none"
    /\ inbuf = NoBuf
    /\ ret = Zero64
    /\ payload = NoneV
    /\ trapped = FALSE
    /\ probe = NoProbe
    /\ ctx = DefaultContext
    /\ last = [k \in Keys |-> Never]
    /\ wire = <<>>
    /\ back = NoneV
    /\ config = NoneV
    /\ call = NoCall
    /\ thread = NoThread

HostWrote(f, t, len) ==
    \E p \in MallocResults(heap, len) :
        /\ len > 0 => p # 0
        /\ fn' = f
        /\ inbuf' = [ptr |-> p, len |-> len, text |-> t]
        /\ heap' = Allocated(heap, p, len)

HostWrite ==
    /\ pc = "idle"
    /\ \E f \in Hooks : \E t \in HostTexts(f) : HostWrote(f, t, TextLen(t))
    /\ pc' = "ready"
    /\ UNCHANGED <<ret, payload, trapped, probe, store, life>>

Handler(f, input_str, col) ==
    CASE f = "http_intercept" -> http_intercept(input_str, col)
      [] f = "pre_hook" -> pre_hook(input_str, col)
      [] f = "post_hook" -> post_hook(input_str, col)
      [] f = "http_stream_chunk_hook" -> http_stream_chunk_hook(input_str, col)

\* write_string on the payload the handler built, when malloc returned p.
Written(res, len, p) ==
    /\ ret' = write_string(len, p)
    /\ payload' = IF p = 0 THEN NoneV ELSE res.payload
    /\ heap' = Allocated(heap, p, len)
    /\ trapped' = FALSE

Returned(res, len) ==
    IF res.panic
    THEN /\ trapped' = TRUE
         /\ UNCHANGED <<heap, ret, payload>>
    ELSE \E p \in MallocResults(heap, len) : Written(res, len, p)

Ran(res) == Returned(res, IF res.panic THEN 0 ELSE ByteLen(res.payload))

Called(input_str) == \E col \in ErrorColumns(input_str) : Ran(Handler(fn, input_str, col))

\* A hook call that also clears PLUGIN_CONFIG.
CallHook_clearing_config ==
    /\ pc = "ready"
    /\ fn \in Hooks
    /\ Called(read_string(inbuf.text, inbuf.len))
    /\ pc' = "returned"
    /\ config' = NoneV
    /\ UNCHANGED <<fn, inbuf, probe, store, call, thread>>

\* The call of an exported hook: read_string, the handler, write_string.
CallHook ==
    /\ pc = "ready"
    /\ fn \in Hooks
    /\ Called(read_string(inbuf.text, inbuf.len))
    /\ pc' = "returned"
    /\ UNCHANGED <<fn, inbuf, probe, store, life>>

\* The host frees the input buffer and, when there is one, the result buffer.
HostFree ==
    /\ pc = "returned"
    /\ heap' = free(free(heap, inbuf.ptr, inbuf.len), UnpackPtr(ret), UnpackLen(ret))
    /\ pc' = "idle"
    /\ fn' = "none"
    /\ inbuf' = NoBuf
    /\ ret' = Zero64
    /\ payload' = NoneV
    /\ trapped' = FALSE
    /\ call' = NoCall
    /\ UNCHANGED <<probe, store, config, thread>>

Next == HostWrite \/ CallHook \/ HostFree

Spec == Init /\ [][Next]_vars
(***************************************************************************)
(* What the properties below read off a state.                             *)
(***************************************************************************)
ShapeOf(f) ==
    CASE f = "http_intercept" -> HTTPInterceptInput
      [] f = "pre_hook" -> PreHookInput
      [] f = "post_hook" -> PostHookInput
      [] f = "http_stream_chunk_hook" -> HTTPStreamChunkHookInput

\* The call that returned (or trapped) was given input that does not decode.
Undecodable == ~from_str(read_string(inbuf.text, inbuf.len), ShapeOf(fn), 1).ok

\* A hook returned a result buffer; its payload is `payload`.
Answered(f) == pc = "returned" /\ fn = f /\ ~trapped /\ payload # NoneV

\* The input document's value at a top-level key, Absent when it has none.
InField(k) ==
    IF inbuf.text.kind = "doc" /\ inbuf.text.doc.t = "obj" /\ k \in DOMAIN inbuf.text.doc.o
    THEN inbuf.text.doc.o[k]
    ELSE Absent

\* An absent or null value reads as dflt.
OrElse(v, dflt) == IF v = Absent \/ v = Null THEN dflt ELSE v

\* The value of a document at a top-level key, Absent when it has none.
InFieldOf(doc, k) == IF doc.t = "obj" /\ k \in DOMAIN doc.o THEN doc.o[k] ELSE Absent

OutKeys == DOMAIN payload.o
Out(k) == payload.o[k]

\* The error field of a hook's output.
ErrorKey(f) == IF f = "post_hook" THEN "hook_error" ELSE "error"

\* The keys of a hook's output that are always written, and its flags.
FlagKeys(f) ==
    CASE f = "http_intercept" -> {"has_response"}
      [] f = "pre_hook" -> {"has_short_circuit"}
      [] f = "post_hook" -> {"has_error"}
      [] f = "http_stream_chunk_hook" -> {"has_chunk", "skip"}

\* A well-formed output of hook f that reports an error and nothing else.
IsErrorOutput(f, doc) ==
    /\ doc.t = "obj"
    /\ DOMAIN doc.o = {"context", ErrorKey(f)} \cup FlagKeys(f)
    /\ doc.o["context"] = Obj(EmptyMap)
    /\ \A k \in FlagKeys(f) : doc.o[k] = Bool(FALSE)
    /\ doc.o[ErrorKey(f)].t = "str"
    /\ doc.o[ErrorKey(f)].s # ""

(***************************************************************************)
(* C1.  For each of the four hooks and every input that fails to decode,   *)
(* the call returns a non-null packed result whose payload is a            *)
(* well-formed output of that hook with a non-empty error string           *)
(* (hook_error for post_hook) and every other field at its default.        *)
(* A call whose result buffer could not be allocated returns 0 by design   *)
(* (memory.rs:20-22) and is left out: AllocFailed.                         *)
(***************************************************************************)
AllocFailed == ~trapped /\ payload = NoneV

C1_DecodeFailureYieldsErrorOutput ==
    (pc = "returned" /\ Undecodable /\ ~AllocFailed) =>
        /\ ~trapped
        /\ ret # Zero64
        /\ UnpackPtr(ret) # 0
        /\ UnpackLen(ret) = ByteLen(payload)
        /\ IsErrorOutput(fn, payload)

(***************************************************************************)
(* C2.  A decode failure never aborts http_intercept: for every input and  *)
(* every error column, the snippet input[col-50 .. min(col+50, len)] has   *)
(* start <= end, end within the input and both on character boundaries,    *)
(* so the handler reaches the point where it returns its error output.     *)
(***************************************************************************)
C2_SnippetNeverAborts ==
    (pc = "returned" /\ fn = "http_intercept" /\ Undecodable) => ~trapped

(***************************************************************************)
(* C3.  For every pre_hook input that decodes, the output has              *)
(* has_short_circuit = false, no short_circuit, an empty error, a request  *)
(* value equal to the input's request value (fields the module does not    *)
(* know included) and a context equal to the input's context.              *)
(***************************************************************************)
C3_PreHookPassThrough ==
    (Answered("pre_hook") /\ ~Undecodable) =>
        /\ Out("has_short_circuit") = Bool(FALSE)
        /\ "short_circuit" \notin OutKeys
        /\ Out("error") = Str("")
        /\ "request" \in OutKeys
        /\ Out("request") = OrElse(InField("request"), Null)
        /\ Out("context") = OrElse(InField("context"), Obj(EmptyMap))

\* pre_hook answered the spec's scenario: request_id r1, provider and model.
C3_Witness ==
    /\ Answered("pre_hook")
    /\ ~Undecodable
    /\ InField("context") = Obj("request_id" :> Str("r1"))
    /\ InField("request") = Obj(("provider" :> Str("openai")) @@ ("model" :> Str("gpt-4")))
    /\ Out("context").o["request_id"] = Str("r1")

(***************************************************************************)
(* C4.  For every post_hook input that decodes, the output has has_error   *)
(* equal to the input's, error and response values equal to the input's,   *)
(* an empty hook_error, and the input's context with from-post-hook set    *)
(* to "456" and every other key unchanged.                                 *)
(***************************************************************************)
C4_PostHookPassThrough ==
    (Answered("post_hook") /\ ~Undecodable) =>
        /\ Out("has_error") = OrElse(InField("has_error"), Bool(FALSE))
        /\ "error" \in OutKeys
        /\ Out("error") = OrElse(InField("error"), Null)
        /\ "response" \in OutKeys
        /\ Out("response") = OrElse(InField("response"), Null)
        /\ Out("hook_error") = Str("")
        /\ Out("context").t = "obj"
        /\ DOMAIN Out("context").o =
              DOMAIN OrElse(InField("context"), Obj(EmptyMap)).o \cup {"from-post-hook"}
        /\ \A k \in DOMAIN Out("context").o :
              Out("context").o[k] = IF k = "from-post-hook" THEN Str("456")
                                    ELSE InField("context").o[k]

\* post_hook answered an input with has_error = true, an error object and a
\* context that already held from-post-hook.
C4_Witness ==
    /\ Answered("post_hook")
    /\ ~Undecodable
    /\ InField("has_error") = Bool(TRUE)
    /\ InField("error") = Obj("error" :> Obj("message" :> Str("upstream failed")))
    /\ InField("context") # Absent
    /\ "from-post-hook" \in DOMAIN InField("context").o
    /\ Out("has_error") = Bool(TRUE)

(***************************************************************************)
(* C5.  For every http_stream_chunk_hook input that decodes, the output    *)
(* has has_chunk = true, skip = false, the input's chunk, an empty error   *)
(* and the input's context with from-stream-chunk set to "rust-wasm"; and  *)
(* no output of the handler, on any input, has has_chunk and skip both     *)
(* true.                                                                   *)
(***************************************************************************)
C5_StreamChunkPassThrough ==
    Answered("http_stream_chunk_hook") =>
        /\ ~(Out("has_chunk") = Bool(TRUE) /\ Out("skip") = Bool(TRUE))
        /\ ~Undecodable =>
            /\ Out("has_chunk") = Bool(TRUE)
            /\ Out("skip") = Bool(FALSE)
            /\ "chunk" \in OutKeys
            /\ Out("chunk") = OrElse(InField("chunk"), Null)
            /\ Out("error") = Str("")
            /\ Out("context").t = "obj"
            /\ DOMAIN Out("context").o =
                  DOMAIN OrElse(InField("context"), Obj(EmptyMap)).o \cup {"from-stream-chunk"}
            /\ \A k \in DOMAIN Out("context").o :
                  Out("context").o[k] = IF k = "from-stream-chunk" THEN Str("rust-wasm")
                                        ELSE InField("context").o[k]

\* http_stream_chunk_hook answered an input carrying a chunk and request_id.
C5_Witness ==
    /\ Answered("http_stream_chunk_hook")
    /\ ~Undecodable
    /\ InField("chunk") = Obj("delta" :> Str("Hel"))
    /\ InField("context") = Obj("request_id" :> Str("r1"))
    /\ Out("chunk") = Obj("delta" :> Str("Hel"))

\* The input request's value at a field: by key in an object, by position in
\* an array (serde reads a struct from either); Absent when it has none.
InReq == InField("request")
ReqField(k, i) ==
    IF InReq.t = "obj" THEN (IF k \in DOMAIN InReq.o THEN InReq.o[k] ELSE Absent)
    ELSE IF InReq.t = "arr" THEN (IF i <= Len(InReq.a) THEN InReq.a[i] ELSE Absent)
    ELSE Absent

\* The entries of a JSON map whose value is not null.
NonNullEntries(v) == Obj([k \in {x \in DOMAIN v.o : v.o[x] # Null} |-> v.o[k]])

OutReq == Out("request")

(***************************************************************************)
(* C6.  For every http_intercept input that decodes, the output has        *)
(* has_response = false, no response, an empty error and a request that    *)
(* is the input request unchanged: same method, path and body, exactly     *)
(* the same header and query entries, and no field of the input request    *)
(* lost.                                                                   *)
(* As stated (C6_RequestUnchanged) this fails: an entry whose value is     *)
(* null is dropped by nullable::string_map and a field HTTPRequest does    *)
(* not declare is not carried over.  C6_RequestNormalised is the amended   *)
(* statement: the output request has exactly the five fields of            *)
(* HTTPRequest; method, path and body are the input's (null or missing     *)
(* reads as ""); headers and query are the input's entries whose value is  *)
(* not null.                                                               *)
(***************************************************************************)
C6_Flags ==
    /\ Out("has_response") = Bool(FALSE)
    /\ "response" \notin OutKeys
    /\ Out("error") = Str("")
    /\ "request" \in OutKeys
    /\ OutReq.t = "obj"

C6_RequestUnchanged ==
    (Answered("http_intercept") /\ ~Undecodable) =>
        /\ C6_Flags
        /\ OutReq.o["method"] = OrElse(ReqField("method", 1), Str(""))
        /\ OutReq.o["path"] = OrElse(ReqField("path", 2), Str(""))
        /\ OutReq.o["body"] = OrElse(ReqField("body", 5), Str(""))
        /\ OutReq.o["headers"] = OrElse(ReqField("headers", 3), Obj(EmptyMap))
        /\ OutReq.o["query"] = OrElse(ReqField("query", 4), Obj(EmptyMap))
        /\ InReq.t = "obj" => DOMAIN InReq.o \subseteq DOMAIN OutReq.o

C6_RequestNormalised ==
    (Answered("http_intercept") /\ ~Undecodable) =>
        /\ C6_Flags
        /\ DOMAIN OutReq.o = {"method", "path", "headers", "query", "body"}
        /\ OutReq.o["method"] = OrElse(ReqField("method", 1), Str(""))
        /\ OutReq.o["path"] = OrElse(ReqField("path", 2), Str(""))
        /\ OutReq.o["body"] = OrElse(ReqField("body", 5), Str(""))
        /\ OutReq.o["headers"] = NonNullEntries(OrElse(ReqField("headers", 3), Obj(EmptyMap)))
        /\ OutReq.o["query"] = NonNullEntries(OrElse(ReqField("query", 4), Obj(EmptyMap)))

\* http_intercept answered a request whose headers hold a null entry and a
\* string entry: the string entry is in the output, the null one is not.
C6_Witness ==
    /\ Answered("http_intercept")
    /\ ~Undecodable
    /\ ReqField("headers", 3) = Obj(("a" :> Null) @@ ("b" :> Str("x")))
    /\ OutReq.o["headers"] = Obj("b" :> Str("x"))
    /\ OutReq.o["method"] = Str("GET")

(***************************************************************************)
(* Decoding one document twice: with a field null and with it omitted.     *)
(***************************************************************************)
Shapes ==
    {"HTTPRequest", "HTTPResponse", "HTTPInterceptInput", "PreHookInput",
     "PostHookInput", "HTTPStreamChunkHookInput"}
HookShapes == Shapes \ {"HTTPRequest", "HTTPResponse"}

ShapeNamed(n) ==
    CASE n = "HTTPRequest" -> HTTPRequest
      [] n = "HTTPResponse" -> HTTPResponse
      [] n = "HTTPInterceptInput" -> HTTPInterceptInput
      [] n = "PreHookInput" -> PreHookInput
      [] n = "PostHookInput" -> PostHookInput
      [] n = "HTTPStreamChunkHookInput" -> HTTPStreamChunkHookInput

FieldNames(shape) == {shape[i].name : i \in 1..Len(shape)}
FieldOf(shape, k) == shape[CHOOSE i \in 1..Len(shape) : shape[i].name = k]

StringChoices == {Absent, Null, Str("POST")}
MapChoices ==
    {Absent, Null, Obj(EmptyMap), Obj("b" :> Str("x")), Obj(("a" :> Null) @@ ("b" :> Str("x")))}
StatusChoices == {Absent, Null, Num(200), Num(I32Min)}

\* Every combination of the fields of HTTPRequest and of HTTPResponse.
HTTPRequestDocs ==
    { DocOf([method |-> m, path |-> p, headers |-> h, query |-> q, body |-> b]) :
        m \in StringChoices, p \in {Absent, Null, Str("/v1")}, h \in MapChoices,
        q \in {Absent, Null, Obj("q" :> Str("1"))}, b \in {Absent, Null, Str("e30=")} }
HTTPResponseDocs ==
    { DocOf([status_code |-> c, headers |-> h, body |-> b]) :
        c \in StatusChoices, h \in MapChoices, b \in StringChoices }

ProbeDocs(n) ==
    CASE n = "HTTPRequest" -> HTTPRequestDocs
      [] n = "HTTPResponse" -> HTTPResponseDocs
      [] n = "HTTPInterceptInput" -> HTTPInterceptDocs
      [] n = "PreHookInput" -> PreHookDocs
      [] n = "PostHookInput" -> PostHookDocs
      [] n = "HTTPStreamChunkHookInput" -> HTTPStreamChunkHookDocs

With(d, k, v) == Obj([x \in DOMAIN d.o \cup {k} |-> IF x = k THEN v ELSE d.o[x]])
Without(d, k) == Obj([x \in DOMAIN d.o \ {k} |-> d.o[x]])

\* serde_json::from_value::<shape n> of d with field k null, and with no k.
Probed(n, d, k) ==
    probe' = [shape |-> n, field |-> k, doc |-> Without(d, k),
              with_null |-> De_Struct(With(d, k, Null), ShapeNamed(n)),
              omitted |-> De_Struct(Without(d, k), ShapeNamed(n))]

Decode ==
    /\ probe = NoProbe
    /\ \E n \in Shapes : \E d \in ProbeDocs(n) :
          \E k \in FieldNames(ShapeNamed(n)) : Probed(n, d, k)
    /\ UNCHANGED <<host, store, life>>

Forget ==
    /\ probe # NoProbe
    /\ probe' = NoProbe
    /\ UNCHANGED <<host, store, life>>

NextDecode == Decode \/ Forget

SpecDecode == Init /\ [][NextDecode]_vars

(***************************************************************************)
(* C7.  For every input shape of every hook and every field of it,         *)
(* decoding a payload in which the field is null gives the same result as  *)
(* decoding the payload with the field omitted: the decode does not fail   *)
(* and the field has its zero value.                                       *)
(***************************************************************************)
C7_NullSameAsOmitted ==
    (probe # NoProbe /\ probe.shape \in HookShapes /\ probe.omitted.ok) =>
        /\ probe.with_null.ok
        /\ probe.with_null = probe.omitted
        /\ probe.omitted.v[probe.field] = FieldOf(ShapeNamed(probe.shape), probe.field).dflt

\* The JSON value a decoded field of HTTPRequest or HTTPResponse stands for.
Given(de, x) ==
    CASE de = "nullable::string" -> Str(x)
      [] de = "nullable::string_map" -> Ser_StringMap(x)
      [] de = "nullable::i32_field" -> Num(x)

\* The fields the probed document carries with a value that is not null.
GivenFields == {k \in DOMAIN probe.doc.o : probe.doc.o[k] # Null}

C8_NullIsOmitted ==
    /\ probe.with_null.ok
    /\ probe.omitted.ok
    /\ probe.with_null = probe.omitted
    /\ probe.omitted.v[probe.field] = FieldOf(ShapeNamed(probe.shape), probe.field).dflt

(***************************************************************************)
(* C8.  For each field of HTTPRequest and of HTTPResponse and every        *)
(* combination of the other fields, decoding with the field null and with  *)
(* the field omitted give identical values, the field being "", the empty  *)
(* map or 0; the fields that are present and not null keep their given     *)
(* values.                                                                 *)
(* As stated (C8_GivenValuesKept) this fails for a map that holds an       *)
(* entry whose value is null: nullable::string_map drops the entry.        *)
(* C8_GivenValuesKeptButNullEntries is the amended statement: a present,   *)
(* non-null string or status code keeps its value and a present map keeps  *)
(* its entries whose value is not null.                                    *)
(***************************************************************************)
C8_GivenValuesKept ==
    (probe # NoProbe /\ probe.shape \notin HookShapes) =>
        /\ C8_NullIsOmitted
        /\ \A k \in GivenFields :
              Given(FieldOf(ShapeNamed(probe.shape), k).de, probe.with_null.v[k])
                  = probe.doc.o[k]

C8_GivenValuesKeptButNullEntries ==
    (probe # NoProbe /\ probe.shape \notin HookShapes) =>
        /\ C8_NullIsOmitted
        /\ \A k \in GivenFields :
              Given(FieldOf(ShapeNamed(probe.shape), k).de, probe.with_null.v[k])
                  = IF probe.doc.o[k].t = "obj" THEN NonNullEntries(probe.doc.o[k])
                    ELSE probe.doc.o[k]

\* An HTTPRequest was decoded with headers null beside a method, a body and
\* a query: headers is the empty map and the others are as given.
C8_Witness ==
    /\ probe # NoProbe
    /\ probe.shape = "HTTPRequest"
    /\ probe.field = "headers"
    /\ probe.doc = Obj(("method" :> Str("POST")) @@ ("query" :> Obj("q" :> Str("1")))
                        @@ ("body" :> Str("e30=")))
    /\ probe.with_null.ok
    /\ probe.with_null.v.headers = EmptyMap
    /\ probe.with_null.v.method = "POST"
    /\ probe.with_null.v.path = ""

(***************************************************************************)
(* The Context on the wire.  serde_json::to_string writes a JSON text and  *)
(* serde_json::from_str reads one; a text is modelled by its tokens.       *)
(* BifrostContext is #[serde(transparent)]: it is written and read as the  *)
(* map it wraps.  A HashMap is written in no particular key order.         *)
(***************************************************************************)
Tok(p) == [k |-> "punct", s |-> p]
TStr(x) == [k |-> "str", s |-> x]
TNum(n) == [k |-> "num", n |-> n]
TLit(x) == [k |-> "lit", s |-> x]

RECURSIVE Tokens(_), MemberTokens(_, _), ItemTokens(_)
\* The token sequences a value may be written as.
Tokens(v) ==
    CASE v.t = "null" -> {<<TLit("null")>>}
      [] v.t = "bool" -> {<<TLit(IF v.b THEN "true" ELSE "false")>>}
      [] v.t = "num" -> {<<TNum(v.n)>>}
      [] v.t = "str" -> {<<TStr(v.s)>>}
      [] v.t = "arr" -> {<<Tok("[")>> \o q \o <<Tok("]")>> : q \in ItemTokens(v.a)}
      [] v.t = "obj" -> {<<Tok("{")>> \o q \o <<Tok("}")>> : q \in MemberTokens(v.o, DOMAIN v.o)}
MemberTokens(o, ks) ==
    IF ks = {} THEN {<<>>}
    ELSE UNION { { <<TStr(key), Tok(":")>> \o e
                       \o (IF ks = {key} THEN <<>> ELSE <<Tok(",")>>) \o rest :
                     e \in Tokens(o[key]), rest \in MemberTokens(o, ks \ {key}) } :
                 key \in ks }
ItemTokens(q) ==
    IF q = <<>> THEN {<<>>}
    ELSE { e \o (IF Len(q) = 1 THEN <<>> ELSE <<Tok(",")>>) \o rest :
             e \in Tokens(Head(q)), rest \in ItemTokens(Tail(q)) }

\* The reader: a value and the tokens left, or a failure.
Got(v, rest) == [ok |-> TRUE, v |-> v, rest |-> rest]
Fail(msg) == [ok |-> FALSE, e |-> msg]
Starts(ts, p) == ts # <<>> /\ Head(ts) = Tok(p)

Literal(x) ==
    CASE x = "null" -> Null
      [] x = "true" -> Bool(TRUE)
      [] x = "false" -> Bool(FALSE)

RECURSIVE ParseValue(_), ParseItems(_, _), ItemsAfter(_, _), ParseMembers(_, _),
          MemberAfter(_, _, _)
ParseValue(ts) ==
    IF ts = <<>> THEN Fail("EOF while parsing a value")
    ELSE CASE Head(ts).k = "str" -> Got(Str(Head(ts).s), Tail(ts))
           [] Head(ts).k = "num" -> Got(Num(Head(ts).n), Tail(ts))
           [] Head(ts).k = "lit" -> Got(Literal(Head(ts).s), Tail(ts))
           [] Head(ts) = Tok("[") ->
                IF Starts(Tail(ts), "]") THEN Got(Arr(<<>>), Tail(Tail(ts)))
                ELSE ParseItems(Tail(ts), <<>>)
           [] Head(ts) = Tok("{") ->
                IF Starts(Tail(ts), "}") THEN Got(Obj(EmptyMap), Tail(Tail(ts)))
                ELSE ParseMembers(Tail(ts), EmptyMap)
           [] OTHER -> Fail("expected value")

ParseItems(ts, acc) == ItemsAfter(ParseValue(ts), acc)
ItemsAfter(r, acc) ==
    IF ~r.ok THEN r
    ELSE IF Starts(r.rest, ",") THEN ParseItems(Tail(r.rest), Append(acc, r.v))
    ELSE IF Starts(r.rest, "]") THEN Got(Arr(Append(acc, r.v)), Tail(r.rest))
    ELSE Fail("expected comma or closing bracket")

ParseMembers(ts, acc) ==
    IF Len(ts) < 2 \/ Head(ts).k # "str" THEN Fail("key must be a string")
    ELSE IF ts[2] # Tok(":") THEN Fail("expected colon")
    ELSE MemberAfter(Head(ts).s, ParseValue(Tail(Tail(ts))), acc)
\* A key met again overwrites (the map's insert).
MemberAfter(key, r, acc) ==
    IF ~r.ok THEN r
    ELSE IF Starts(r.rest, ",") THEN ParseMembers(Tail(r.rest), set_value(acc, key, r.v))
    ELSE IF Starts(r.rest, "}") THEN Got(Obj(set_value(acc, key, r.v)), Tail(r.rest))
    ELSE Fail("expected comma or closing brace")

\* serde_json::to_string(&ctx), serde_json::from_str::<BifrostContext>(text).
to_string(c) == Tokens(Ser_BifrostContext(c))
Whole(r) ==
    IF ~r.ok THEN Err(r.e)
    ELSE IF r.rest # <<>> THEN Err("trailing characters")
    ELSE De_BifrostContext(r.v)
context_from_str(ts) == Whole(ParseValue(ts))

(***************************************************************************)
(* The values a Context is given: scalars, and arrays and objects nested   *)
(* up to MaxDepth.                                                         *)
(***************************************************************************)
MaxDepth == 1

Scalars == {Null, Bool(TRUE), Num(42), Str("test-123")}

RECURSIVE Values(_)
Nested(inner) ==
    {Arr(<<>>), Obj(EmptyMap), Arr(<<Str("a"), Null>>),
     Obj(("a" :> Num(1)) @@ ("b" :> Arr(<<>>)))}
        \cup {Arr(<<x>>) : x \in inner} \cup {Obj("a" :> x) : x \in inner}
Values(d) == IF d = 0 THEN Scalars ELSE Scalars \cup Nested(Values(d - 1))

SetValue ==
    /\ \E key \in Keys : \E value \in Values(MaxDepth) :
          /\ ctx' = set_value(ctx, key, value)
          /\ last' = [last EXCEPT ![key] = [op |-> "set_value", value |-> value]]
    /\ wire' = <<>>
    /\ back' = NoneV
    /\ UNCHANGED <<host, probe, life>>

Remove ==
    /\ \E key \in Keys :
          /\ ctx' = remove(ctx, key)
          /\ last' = [last EXCEPT ![key] = [op |-> "remove"]]
    /\ wire' = <<>>
    /\ back' = NoneV
    /\ UNCHANGED <<host, probe, life>>

Encode ==
    /\ wire = <<>>
    /\ wire' \in to_string(ctx)
    /\ UNCHANGED <<host, probe, ctx, last, back, life>>

DecodeContext ==
    /\ wire # <<>>
    /\ back = NoneV
    /\ back' = context_from_str(wire)
    /\ UNCHANGED <<host, probe, ctx, last, wire, life>>

NextCtx == SetValue \/ Remove \/ Encode \/ DecodeContext

SpecCtx == Init /\ [][NextCtx]_vars

\* The nesting depth of the token at position i, and the keys of the
\* outermost object of a text.
DepthAt(ts, i) ==
    Cardinality({j \in 1..(i - 1) : ts[j] \in {Tok("{"), Tok("[")}})
        - Cardinality({j \in 1..(i - 1) : ts[j] \in {Tok("}"), Tok("]")}})
TopKeys(ts) ==
    {ts[i].s : i \in {j \in 1..(Len(ts) - 1) :
                        ts[j].k = "str" /\ ts[j + 1] = Tok(":") /\ DepthAt(ts, j) = 1}}

(***************************************************************************)
(* C9.  For every Context, its encoding is a plain JSON object whose keys  *)
(* are exactly the Context's keys, and decoding the encoding gives a       *)
(* Context with the same keys and, for every key, an equal value.          *)
(***************************************************************************)
C9_ContextRoundTrip ==
    /\ wire # <<>> =>
          /\ Head(wire) = Tok("{")
          /\ wire[Len(wire)] = Tok("}")
          /\ \A i \in 2..(Len(wire) - 1) : DepthAt(wire, i) >= 1
          /\ TopKeys(wire) = DOMAIN ctx
    /\ back # NoneV =>
          /\ back.ok
          /\ DOMAIN back.v = DOMAIN ctx
          /\ \A key \in DOMAIN ctx : back.v[key] = ctx[key]

\* A Context of two keys, one null and one a nested object, went through
\* encode and decode.
C9_Witness ==
    /\ back # NoneV
    /\ back.ok
    /\ DOMAIN ctx = Keys
    /\ ctx["request_id"] = Null
    /\ ctx["meta"] = Obj(("a" :> Num(1)) @@ ("b" :> Arr(<<>>)))
    /\ back.v["meta"] = Obj(("a" :> Num(1)) @@ ("b" :> Arr(<<>>)))
    /\ Len(wire) > 10

\* What get and contains_key must answer for a key, given its last operation.
Expected(l) == IF l.op = "set_value" THEN l.value ELSE NoneV

C10_LastOperationDecides ==
    \A key \in Keys :
        /\ get(ctx, key) = Expected(last[key])
        /\ contains_key(ctx, key) = (last[key].op = "set_value")

C10_OtherKeysKept ==
    \A key \in Keys :
        last'[key] = last[key] =>
            /\ get(ctx', key) = get(ctx, key)
            /\ contains_key(ctx', key) = contains_key(ctx, key)

(***************************************************************************)
(* C10.  After any sequence of set_value and remove, for every key: if     *)
(* the last operation on it was set_value(key, v), get returns v and       *)
(* contains_key is true; if it was remove, or the key was never set, get   *)
(* returns nothing and contains_key is false; and an operation on one key  *)
(* never changes what get and contains_key return for another.             *)
(***************************************************************************)
C10_SetGetRemove == [](C10_LastOperationDecides) /\ [][C10_OtherKeysKept]_vars

\* One key was set and then removed while the other, set before, still
\* holds its value.
C10_Witness ==
    /\ last["request_id"] = [op |-> "remove"]
    /\ last["meta"] = [op |-> "set_value", value |-> Str("test-123")]
    /\ ~contains_key(ctx, "request_id")
    /\ get(ctx, "request_id") = NoneV
    /\ get(ctx, "meta") = Str("test-123")

(***************************************************************************)
(* The typed accessors of the Context, read after values of every JSON     *)
(* type were stored.                                                       *)
(***************************************************************************)
TypedValues ==
    { Null, Bool(TRUE), Bool(FALSE), Num(0), Num(1), Num(42), Num(-7), BigUint(1),
      Float("1.0"), Float("42.5"), Str("42"), Str("true"), Str(""), Str("test-123"),
      Arr(<<Num(1)>>), Obj("a" :> Bool(TRUE)) }

Store ==
    /\ \E key \in Keys : \E value \in TypedValues :
          /\ ctx' = set_value(ctx, key, value)
          /\ last' = [last EXCEPT ![key] = [op |-> "set_value", value |-> value]]
    /\ call' = NoCall
    /\ UNCHANGED <<host, probe, wire, back, config, thread>>

Drop ==
    /\ \E key \in Keys :
          /\ ctx' = remove(ctx, key)
          /\ last' = [last EXCEPT ![key] = [op |-> "remove"]]
    /\ call' = NoCall
    /\ UNCHANGED <<host, probe, wire, back, config, thread>>

\* get, get_string, get_bool and get_i64 of one key.
Read ==
    /\ \E key \in Keys :
          call' = [f |-> "get", key |-> key, held |-> get(ctx, key),
                   string |-> get_string(ctx, key), bool |-> get_bool(ctx, key),
                   i64 |-> get_i64(ctx, key)]
    /\ UNCHANGED <<host, probe, store, config, thread>>

NextAccess == Store \/ Drop \/ Read

SpecAccess == Init /\ [][NextAccess]_vars

(***************************************************************************)
(* C11.  The typed accessors never coerce: get_string returns a value      *)
(* only when the key holds a string, get_bool only when it holds a         *)
(* boolean, get_i64 only when it holds an integer; each returns nothing    *)
(* when the key is absent or holds a value of another type, and a value    *)
(* returned is the stored value.                                           *)
(***************************************************************************)
C11_TypedAccessorsNeverCoerce ==
    call.f = "get" =>
        /\ call.string = (IF call.held.t = "str" THEN Some(call.held.s) ELSE None)
        /\ call.bool = (IF call.held.t = "bool" THEN Some(call.held.b) ELSE None)
        /\ call.i64 # None => (call.held.t = "num" /\ call.i64 = Some(call.held.n))
        /\ call.held.t \notin {"num", "u64"} => call.i64 = None

\* The accessors were read on a key that holds the integer 1: get_bool and
\* get_string give nothing, get_i64 gives 1.
C11_Witness ==
    /\ call.f = "get"
    /\ call.held = Num(1)
    /\ call.bool = None
    /\ call.string = None
    /\ call.i64 = Some(1)

(***************************************************************************)
(* pack_result on 32-bit words, and the host's unpacking of its result.    *)
(* The words are taken with each limb at the ends and the middle of its    *)
(* range, so that 0 and 2^32 - 1 are among them.                           *)
(***************************************************************************)
LimbChoices == {0, 1, 2 ^ 15, Limb - 1}
Words == {<<lo, hi>> : lo \in LimbChoices, hi \in LimbChoices}
Zero32 == <<0, 0>>
Max32 == <<Limb - 1, Limb - 1>>

Pack ==
    /\ \E ptr \in Words : \E len \in Words :
          call' = [f |-> "pack_result", ptr |-> ptr, len |-> len,
                   r |-> pack_result32(ptr, len)]
    /\ UNCHANGED <<host, probe, store, config, thread>>

Unpack ==
    /\ call.f = "pack_result"
    /\ call' = [f |-> "unpack", ptr |-> call.ptr, len |-> call.len, r |-> call.r,
                high |-> HighWord(call.r), low |-> LowWord(call.r)]
    /\ UNCHANGED <<host, probe, store, config, thread>>

NextPack == Pack \/ Unpack

SpecPack == Init /\ [][NextPack]_vars

(***************************************************************************)
(* C12.  For all 32-bit offsets and lengths, pack_result(offset, length)   *)
(* has the offset in its high 32 bits and the length in its low 32 bits,   *)
(* unpacking it gives back exactly (offset, length), also at 2^32 - 1,     *)
(* and pack_result(0, 0) = 0.                                              *)
(***************************************************************************)
C12_PackUnpack ==
    /\ call.f \in {"pack_result", "unpack"} =>
          /\ call.r = <<call.len[1], call.len[2], call.ptr[1], call.ptr[2]>>
          /\ (call.ptr = Zero32 /\ call.len = Zero32) => call.r = Zero64
    /\ call.f = "unpack" =>
          /\ call.high = call.ptr
          /\ call.low = call.len

\* The largest offset with a small length was packed and unpacked.
C12_Witness ==
    /\ call.f = "unpack"
    /\ call.ptr = Max32
    /\ call.len = <<1, 0>>
    /\ call.r = <<1, 0, Limb - 1, Limb - 1>>
    /\ call.high = Max32

(***************************************************************************)
(* C13.  For every offset and length, if the offset is 0 or the length is  *)
(* 0 then pack_result(offset, length) = 0.                                 *)
(***************************************************************************)
C13_ZeroOffsetOrLengthPacksToZero ==
    (call.f = "pack_result" /\ (call.ptr = Zero32 \/ call.len = Zero32)) =>
        call.r = Zero64

(***************************************************************************)
(* write_string on its own: strings of ASCII and multi-byte characters,    *)
(* the empty string among them, written while earlier results may still    *)
(* be live.                                                                *)
(***************************************************************************)
MaxAscii == 2
StringsWritten ==
    { RawText(0, 0, a, w, FALSE, 0) : a \in 0..MaxAscii, w \in 0..4 }

\* memory.rs:15-26 with s of len bytes on heap h: the empty string returns
\* before malloc; otherwise malloc gives p.
WroteString(t, len, p) ==
    /\ ret' = write_string(len, p)
    /\ payload' = IF len = 0 \/ p = 0 THEN NoneV ELSE t
    /\ heap' = Allocated(heap, p, len)
    /\ call' = [f |-> "write_string", s |-> t, before |-> heap,
                malloc |-> IF len = 0 THEN None ELSE Some(p)]

WriteString ==
    /\ pc = "idle"
    /\ \E t \in StringsWritten :
          \E p \in (IF TextLen(t) = 0 THEN {0} ELSE MallocResults(heap, TextLen(t))) :
              WroteString(t, TextLen(t), p)
    /\ UNCHANGED <<pc, fn, inbuf, trapped, probe, store, config, thread>>

\* The host frees the buffer of the last result.
Release ==
    /\ pc = "idle"
    /\ call.f = "write_string"
    /\ heap' = free(heap, UnpackPtr(ret), UnpackLen(ret))
    /\ ret' = Zero64
    /\ payload' = NoneV
    /\ call' = NoCall
    /\ UNCHANGED <<pc, fn, inbuf, trapped, probe, store, config, thread>>

NextMem == WriteString \/ Release

SpecMem == Init /\ [][NextMem]_vars

(***************************************************************************)
(* C14.  write_string(s) returns 0 exactly when s is empty or malloc       *)
(* returned the null offset; otherwise it returns a non-zero offset with   *)
(* the byte length of s, and the buffer there holds the bytes of s.  For   *)
(* the empty string nothing is allocated.                                  *)
(***************************************************************************)
C14_WriteString ==
    call.f = "write_string" =>
        /\ (ret = Zero64) <=> (TextLen(call.s) = 0 \/ call.malloc = Some(0))
        /\ ret # Zero64 =>
              /\ UnpackPtr(ret) # 0
              /\ call.malloc = Some(UnpackPtr(ret))
              /\ UnpackLen(ret) = TextLen(call.s)
              /\ payload = call.s
              /\ heap = call.before \cup {[ptr |-> UnpackPtr(ret), size |-> TextLen(call.s)]}
        /\ ret = Zero64 => heap = call.before
        /\ TextLen(call.s) = 0 => call.malloc = None

\* A string of two ASCII bytes and one 3-byte character was written: the
\* length returned is 5.
C14_Witness ==
    /\ call.f = "write_string"
    /\ call.s = RawText(0, 0, 2, 3, FALSE, 0)
    /\ ret # Zero64
    /\ UnpackLen(ret) = 5
    /\ payload = call.s

(***************************************************************************)
(* The whole module: the hooks' rounds, and rounds that call init,         *)
(* cleanup and get_name.                                                   *)
(***************************************************************************)
ConfigTexts ==
    { EmptyText,
      DocText(Obj(EmptyMap)),
      DocText(Obj("rate_limit" :> Num(10))),
      DocText(Null), DocText(Arr(<<>>)), DocText(Str("x")), DocText(Num(1)),
      RawText(1, 0, 0, 0, FALSE, 0),
      RawText(0, 0, 1, 0, FALSE, 0),
      RawText(0, 0, 0, 1, TRUE, 0) }

HostWriteConfig ==
    /\ pc = "idle"
    /\ \E t \in ConfigTexts : HostWrote("init", t, TextLen(t))
    /\ pc' = "ready"
    /\ UNCHANGED <<ret, payload, trapped, probe, store, life>>

Finished(f, out, before) ==
    /\ config' = out.config
    /\ call' = [f |-> f, code |-> out.code, before |-> before]

CallInit ==
    /\ pc = "ready"
    /\ fn = "init"
    /\ Finished("init", init(read_string(inbuf.text, inbuf.len), config), config)
    /\ pc' = "returned"
    /\ UNCHANGED <<heap, fn, inbuf, ret, payload, trapped, probe, store, thread>>

CallCleanup ==
    /\ pc = "idle"
    /\ Finished("cleanup", cleanup(config), config)
    /\ pc' = "returned"
    /\ fn' = "cleanup"
    /\ UNCHANGED <<heap, inbuf, ret, payload, trapped, probe, store, thread>>

NameWritten(len) ==
    \E p \in MallocResults(heap, len) :
        /\ ret' = write_string(len, p)
        /\ payload' = IF p = 0 THEN NoneV ELSE PluginName
        /\ heap' = Allocated(heap, p, len)

CallGetName ==
    /\ pc = "idle"
    /\ NameWritten(Len(PluginName.s))
    /\ pc' = "returned"
    /\ fn' = "get_name"
    /\ UNCHANGED <<inbuf, trapped, probe, store, life>>

NextModule ==
    \/ HostWrite
    \/ CallHook
    \/ HostFree
    \/ HostWriteConfig
    \/ CallInit
    \/ CallCleanup
    \/ CallGetName

SpecModule == Init /\ [][NextModule]_vars

\* The input of the call that returned, as the callee read it.
InputRead == read_string(inbuf.text, inbuf.len)
InitReturned == pc = "returned" /\ fn = "init"

(***************************************************************************)
(* C15.  init with empty config bytes returns 0 and stores the default     *)
(* configuration; with non-empty bytes that decode as a JSON object it     *)
(* returns 0 and stores that object in place of any earlier one; with      *)
(* non-empty bytes that do not decode it returns a non-zero code and       *)
(* leaves the stored configuration as it was (absent or the earlier one).  *)
(***************************************************************************)
C15_Init ==
    InitReturned =>
        /\ call.f = "init"
        /\ inbuf.len = 0 => (call.code = 0 /\ config = [values |-> EmptyMap])
        /\ (inbuf.len > 0 /\ InputRead.kind = "doc" /\ InputRead.doc.t = "obj") =>
              (call.code = 0 /\ config = [values |-> InputRead.doc.o])
        /\ (inbuf.len > 0 /\ ~(InputRead.kind = "doc" /\ InputRead.doc.t = "obj")) =>
              (call.code # 0 /\ config = call.before)

\* init failed on bytes that are no JSON while a configuration was stored:
\* the earlier configuration is still there.
C15_Witness ==
    /\ InitReturned
    /\ InputRead.kind = "raw"
    /\ inbuf.len > 0
    /\ call.code = 1
    /\ call.before = [values |-> ("rate_limit" :> Num(10))]
    /\ config = call.before

C16_CleanupStep == pc = "idle" /\ pc' = "returned" /\ fn' = "cleanup"

(***************************************************************************)
(* C16.  cleanup returns 0 and leaves the stored configuration absent in   *)
(* every state (before any init, after a successful or a failed init,      *)
(* after an earlier cleanup), so twice is as once; and a successful init   *)
(* after cleanup stores a configuration again.                             *)
(***************************************************************************)
C16_Cleanup ==
    /\ []((pc = "returned" /\ fn = "cleanup") => (call.code = 0 /\ config = NoneV))
    /\ [][C16_CleanupStep => (config' = NoneV /\ call'.code = 0)]_vars
    /\ []((InitReturned /\ call.code = 0) => config # NoneV)

\* cleanup returned after a configuration had been stored.
C16_Witness ==
    /\ pc = "returned"
    /\ fn = "cleanup"
    /\ call.before = [values |-> ("rate_limit" :> Num(10))]
    /\ config = NoneV
    /\ call.code = 0

\* A step in which init or cleanup runs.
C17_LifecycleStep ==
    \/ pc = "ready" /\ fn = "init" /\ pc' = "returned"
    \/ pc = "idle" /\ pc' = "returned" /\ fn' = "cleanup"

\* What a hook returned is what its handler makes of the input alone.
C17_ResultIs(res) ==
    /\ trapped = res.panic
    /\ payload \in {NoneV, res.payload}
C17_ResultFromInputAlone ==
    /\ (pc = "returned" /\ fn \in Hooks) =>
          \E col \in ErrorColumns(InputRead) : C17_ResultIs(Handler(fn, InputRead, col))
    /\ (pc = "returned" /\ fn = "get_name") =>
          /\ payload \in {NoneV, PluginName}
          /\ UnpackLen(ret) = (IF payload = NoneV THEN 0 ELSE Len(PluginName.s))

(***************************************************************************)
(* C17.  The stored configuration changes only in a call to init or        *)
(* cleanup: get_name and the four hooks leave it unchanged on every        *)
(* input, and what each of them returns is the same whether the            *)
(* configuration is absent or stored.                                      *)
(***************************************************************************)
C17_ConfigSingleWriter ==
    /\ [][config' # config => C17_LifecycleStep]_vars
    /\ [](C17_ResultFromInputAlone)

\* A hook answered while a configuration was stored.
C17_Witness ==
    /\ Answered("post_hook")
    /\ ~Undecodable
    /\ config = [values |-> ("rate_limit" :> Num(10))]
    /\ Out("context").o["from-post-hook"] = Str("456")

\* The input context of the call, null or missing read as empty.
InContext == OrElse(InField("context"), Obj(EmptyMap))

(***************************************************************************)
(* C19.  For every http_intercept input that decodes, the context in the   *)
(* output is the input context with from-http set to "123" and every       *)
(* other key unchanged.                                                    *)
(***************************************************************************)
C19_FromHttpInOutput ==
    (Answered("http_intercept") /\ ~Undecodable) =>
        Out("context") = Obj(set_value(InContext.o, "from-http", Str("123")))

\* The blocks of the input and of the result of the round in progress.
InputBlock == [ptr |-> inbuf.ptr, size |-> inbuf.len]
ResultBlock(r) == [ptr |-> UnpackPtr(r), size |-> UnpackLen(r)]

\* A call of get_name or of a hook returns.
C20_CallStep == pc # "returned" /\ pc' = "returned" /\ fn' \in Hooks \cup {"get_name"}

C20_ModuleAllocatesResultOnly ==
    C20_CallStep =>
        /\ heap \subseteq heap'
        /\ Cardinality(heap' \ heap) <= 1
        /\ ret' = Zero64 => heap' = heap
        /\ ret' # Zero64 =>
              /\ heap' \ heap = {ResultBlock(ret')}
              /\ \A blk \in heap : ~Overlaps(blk, UnpackPtr(ret'), UnpackLen(ret'))

C20_HostReleasesEachOnce ==
    (pc = "returned" /\ pc' = "idle") =>
        /\ inbuf.ptr # 0 => InputBlock \in heap
        /\ ret # Zero64 => (ResultBlock(ret) \in heap /\ ResultBlock(ret) # InputBlock)
        /\ heap' = heap \ {InputBlock, ResultBlock(ret)}

ProviderChoices == {Absent, Str("openai"), Str(""), Num(1)}
ModelChoices == {Absent, Str("gpt-4"), Null, Bool(TRUE)}
ChatRequestChoices ==
    { Absent, Null, Num(5), Obj(EmptyMap),
      Obj(("provider" :> Str("anthropic")) @@ ("model" :> Str("claude"))),
      Obj(("provider" :> Str("anthropic")) @@ ("model" :> Str("claude"))
            @@ ("input" :> Arr(<<Obj("role" :> Str("user"))>>))),
      Obj(("provider" :> Str("anthropic")) @@ ("model" :> Num(3))),
      Obj(("model" :> Str("claude")) @@ ("input" :> Str("hello"))),
      Obj(("model" :> Str("claude")) @@ ("input" :> Arr(<<Obj("role" :> Str("robot"))>>))) }

RequestChoices ==
    { DocOf([provider |-> pr, model |-> m, chat_request |-> c]) :
        pr \in ProviderChoices, m \in ModelChoices, c \in ChatRequestChoices }
        \cup {Absent, Null, Str("gpt-4"), Arr(<<Str("openai"), Str("gpt-4")>>)}

Asked(doc, input) ==
    call' = [f |-> "get_provider_model",
             request |-> OrElse(InFieldOf(doc, "request"), Null),
             pair |-> get_provider_model(input.v)]

GetProviderModel ==
    /\ \E r \in RequestChoices :
          Asked(DocOf([context |-> Obj("request_id" :> Str("test-123")), request |-> r]),
                De_Struct(DocOf([context |-> Obj("request_id" :> Str("test-123")),
                                 request |-> r]), PreHookInput))
    /\ UNCHANGED <<host, probe, store, config, thread>>

ForgetCall ==
    /\ call # NoCall
    /\ call' = NoCall
    /\ UNCHANGED <<host, probe, store, config, thread>>

NextRequest == GetProviderModel \/ ForgetCall

SpecRequest == Init /\ [][NextRequest]_vars

\* The request asked about carries key k with a string value.
HasString(k) ==
    call.request.t = "obj" /\ k \in DOMAIN call.request.o /\ call.request.o[k].t = "str"
Carries(k) == call.request.t = "obj" /\ k \in DOMAIN call.request.o

(***************************************************************************)
(* C18.  For every PreHookInput whose request is a JSON object with string *)
(* fields provider and model at its top level and no chat_request,         *)
(* get_provider_model returns that provider and that model; it returns a   *)
(* pair of empty strings only when the request carries neither a           *)
(* chat_request nor top-level provider and model.                          *)
(***************************************************************************)
C18_TopLevelProviderModel ==
    call.f = "get_provider_model" =>
        /\ (HasString("provider") /\ HasString("model") /\ ~Carries("chat_request")) =>
              call.pair = <<call.request.o["provider"].s, call.request.o["model"].s>>
        /\ call.pair = <<"", "">> =>
              ~(Carries("chat_request") \/ Carries("provider") \/ Carries("model"))

(***************************************************************************)
(* One request: the host creates a context, calls the hooks in the order   *)
(* transport, pre-request, post-response, stream-chunk (any of them        *)
(* skipped, the last one once per chunk) and sends into each hook the      *)
(* context the hook before returned.                                        *)
(***************************************************************************)
MaxChunks == 2

MarkerKeys == {"from-http", "from-post-hook", "from-stream-chunk"}

\* The contexts a host starts a request with: with and without request_id,
\* with values of every kind, and with keys named like the module's markers.
InitialContexts ==
    { DocOf(("request_id" :> id) @@ ("trace" :> tr) @@ ("from-http" :> fh)
              @@ ("from-post-hook" :> fp) @@ ("from-stream-chunk" :> fc)).o :
        id \in {Absent, Str("r1")},
        tr \in {Absent, Null, Obj("span" :> Arr(<<Num(1), Null>>))},
        fh \in {Absent, Str("host")},
        fp \in {Absent, Num(7)},
        fc \in {Absent, Null} }

Stage(f) ==
    CASE f = "http_intercept" -> 1
      [] f = "pre_hook" -> 2
      [] f = "post_hook" -> 3
      [] f = "http_stream_chunk_hook" -> 4

\* The inputs the host may send to hook f with context c.
ThreadInputs(f, c) ==
    CASE f = "http_intercept" ->
           { DocOf([context |-> Obj(c), request |-> r]) : r \in HTTPRequestChoices }
      [] f = "pre_hook" ->
           { DocOf([context |-> Obj(c), request |-> r]) : r \in ValueChoices }
      [] f = "post_hook" ->
           { DocOf([context |-> Obj(c), error |-> e, has_error |-> h]) :
               e \in ErrorChoices, h \in HasErrorChoices }
      [] f = "http_stream_chunk_hook" ->
           { DocOf([context |-> Obj(c), chunk |-> k]) :
               k \in {Absent, Obj("delta" :> Str("Hel"))} }

\* The context in the payload a hook returned.
ReturnedContext(res) == res.payload.o["context"].o

\* The hooks that ran on the request so far.
RanSoFar == IF thread = NoThread THEN {} ELSE thread.ran

Threaded(f, start, sent, res, chunks) ==
    /\ ~res.panic
    /\ thread' = [stage |-> Stage(f), ran |-> RanSoFar \cup {f}, initial |-> start,
                  sent |-> sent, context |-> ReturnedContext(res), chunks |-> chunks]

\* The host sends sent to hook f in some input that decodes.
Sent(f, start, sent, chunks) ==
    \E doc \in ThreadInputs(f, sent) :
        /\ from_str(DocText(doc), ShapeOf(f), 1).ok
        /\ Threaded(f, start, sent,
                    Handler(f, read_string(DocText(doc), TextLen(DocText(doc))), 1),
                    chunks)

\* The first hook of a request, on a context the host just created.
FirstHook(f) ==
    /\ thread = NoThread
    /\ \E start \in InitialContexts :
          Sent(f, start, start, IF f = "http_stream_chunk_hook" THEN 1 ELSE 0)
    /\ UNCHANGED <<host, probe, store, config, call>>

\* A later hook of the request, on the context the hook before returned.
NextHook(f) ==
    /\ thread # NoThread
    /\ Stage(f) > thread.stage
    /\ Sent(f, thread.initial, thread.context,
            IF f = "http_stream_chunk_hook" THEN 1 ELSE 0)
    /\ UNCHANGED <<host, probe, store, config, call>>

\* The stream-chunk hook on one more chunk.
NextChunk ==
    /\ thread # NoThread
    /\ thread.stage = Stage("http_stream_chunk_hook")
    /\ thread.chunks < MaxChunks
    /\ Sent("http_stream_chunk_hook", thread.initial, thread.context, thread.chunks + 1)
    /\ UNCHANGED <<host, probe, store, config, call>>

\* The request is over; the host drops its context.
EndRequest ==
    /\ thread # NoThread
    /\ thread' = NoThread
    /\ UNCHANGED <<host, probe, store, config, call>>

NextThread ==
    \/ \E f \in Hooks : FirstHook(f)
    \/ \E f \in Hooks : NextHook(f)
    \/ NextChunk
    \/ EndRequest

SpecThread == Init /\ [][NextThread]_vars

\* Every key of the context sent into the last hook is in what it returned.
C21_NoKeyRemoved ==
    thread # NoThread => DOMAIN thread.sent \subseteq DOMAIN thread.context

\* Every key the host placed, the markers aside, has its original value.
C21_HostKeysKept ==
    thread # NoThread =>
        \A k \in DOMAIN thread.initial :
            /\ k \in DOMAIN thread.context
            /\ k \notin MarkerKeys => thread.context[k] = thread.initial[k]

(***************************************************************************)
(* C21.  In every sequence of hook calls on one request in which the host  *)
(* threads the context returned by one hook into the next and all inputs   *)
(* decode, no hook removes a key, and every key the host placed in the     *)
(* initial context other than the marker keys from-http, from-post-hook    *)
(* and from-stream-chunk, request_id among them, is in the context the     *)
(* last hook returned, with its original value.                            *)
(***************************************************************************)
C21_ContextThreaded == C21_NoKeyRemoved /\ C21_HostKeysKept

\* All four hooks ran, the last one on MaxChunks chunks, on a context that
\* had request_id, a nested value and keys named like the markers.
C21_Witness ==
    /\ thread # NoThread
    /\ thread.ran = Hooks
    /\ thread.chunks = MaxChunks
    /\ {"request_id", "trace", "from-post-hook"} \subseteq DOMAIN thread.initial
    /\ thread.context["from-post-hook"] = Str("456")
    /\ thread.context["request_id"] = Str("r1")

====
